---- MODULE Spec2Model ----
(***************************************************************************)
(* Smart Bus Allotment System (streamlit_app.py): the fair + fuzzy         *)
(* allotment run.  Students (two ranked stop choices) are seated on buses  *)
(* (ordered stop list, seats) by fuzzy string matching, first at threshold *)
(* 50, then, for the students still unallotted, at threshold 45.           *)
(***************************************************************************)
EXTENDS Integers, Sequences, FiniteSets, TLC

(***************************************************************************)
(* Bounds of the model.                                                    *)
(***************************************************************************)
\* At most this many rows in the uploaded student CSV.
NumStudents == 2
\* Largest 'Seats Available' value of an uploaded bus CSV.
MaxSeats == 1

(***************************************************************************)
(* Program constants.                                                      *)
(***************************************************************************)
\* threshold of the first call of allocate_students_fair_fuzzy
FirstThreshold == 50
\* threshold of the second call, over the unallotted students
RelaxedThreshold == 45
\* default value of the parameter threshold of allocate_students_fair_fuzzy
DefaultThreshold == 80

\* The string 'None' that the students table holds for "no bus" / "no stop".
None == "None"

(***************************************************************************)
(* The strings of the model (stop names and choices, stripped and          *)
(* lower-cased), and the characters of each.                               *)
(***************************************************************************)
Strings == {"central", "north", "cenxyz", "centrl", "xyz", ""}

Chars(s) ==
    CASE s = "central" -> <<"c", "e", "n", "t", "r", "a", "l">>
      [] s = "north"   -> <<"n", "o", "r", "t", "h">>
      [] s = "cenxyz"  -> <<"c", "e", "n", "x", "y", "z">>
      [] s = "centrl"  -> <<"c", "e", "n", "t", "r", "l">>
      [] s = "xyz"     -> <<"x", "y", "z">>
      [] s = ""        -> <<>>

(***************************************************************************)
(* fuzz.ratio(s1, s2): int(round(100 * SequenceMatcher(None, s1, s2)       *)
(* .ratio())), 100 for equal strings and 0 when one of them is empty.      *)
(* SequenceMatcher.ratio() is 2*M/T, M the characters in the matching      *)
(* blocks found by taking the longest common block (earliest in s1, then   *)
(* earliest in s2) and recursing to its left and to its right, T the sum   *)
(* of the two lengths.  round() rounds halves to even.                     *)
(***************************************************************************)
\* How far a[i..ahi] and b[j..bhi] agree from their first characters on.
RunLen(a, b, i, j, ahi, bhi) ==
    LET most == IF ahi - i < bhi - j THEN ahi - i + 1 ELSE bhi - j + 1
    IN  Cardinality({k \in 1..most : \A d \in 0..(k - 1) : a[i + d] = b[j + d]})

\* The block SequenceMatcher.find_longest_match returns for a[alo..ahi],
\* b[blo..bhi] (1-based, inclusive): <<i, j, k>>, k = 0 when nothing matches.
FindLongestMatch(a, b, alo, ahi, blo, bhi) ==
    LET pairs == (alo..ahi) \X (blo..bhi)
        len   == [p \in pairs |-> RunLen(a, b, p[1], p[2], ahi, bhi)]
        Better(p, q) == \/ len[p] > len[q]
                        \/ len[p] = len[q] /\ p[1] < q[1]
                        \/ len[p] = len[q] /\ p[1] = q[1] /\ p[2] <= q[2]
    IN  IF pairs = {} THEN <<alo, blo, 0>>
        ELSE LET best == CHOOSE p \in pairs : \A q \in pairs : Better(p, q)
             IN  <<best[1], best[2], len[best]>>

\* A slip of the count below: only the longest common block is counted.
LongestBlockOnly(a, b) == FindLongestMatch(a, b, 1, Len(a), 1, Len(b))[3]

\* SequenceMatcher.get_matching_blocks, summed: the longest block, then the
\* blocks to its left and to its right.
MatchCount(a, b) ==
    LET mc[alo \in 1..(Len(a) + 1), ahi \in 0..Len(a),
           blo \in 1..(Len(b) + 1), bhi \in 0..Len(b)] ==
            LET m == FindLongestMatch(a, b, alo, ahi, blo, bhi)
            IN  IF m[3] = 0 THEN 0
                ELSE m[3] + mc[alo, m[1] - 1, blo, m[2] - 1]
                          + mc[m[1] + m[3], ahi, m[2] + m[3], bhi]
    IN  mc[1, Len(a), 1, Len(b)]

\* round(num / den) as Python 3 rounds: halves go to the even neighbour.
RoundHalfEven(num, den) ==
    LET q == num \div den
        r == num % den
    IN  IF 2 * r < den THEN q
        ELSE IF 2 * r > den THEN q + 1
        ELSE IF q % 2 = 0 THEN q ELSE q + 1

ratio(s1, s2) ==
    LET a == Chars(s1)
        b == Chars(s2)
    IN  IF s1 = s2 THEN 100
        ELSE IF Len(a) = 0 \/ Len(b) = 0 THEN 0
        ELSE RoundHalfEven(200 * MatchCount(a, b), Len(a) + Len(b))

(***************************************************************************)
(* Inputs: the uploaded files.  A bus file is [name, stops, seats]: the    *)
(* file name without ".csv", its 'Stoppings' column and the first value of *)
(* its 'Seats Available' column; any string can be a file name and any     *)
(* integer a seat value.  A student row is <<choice1, choice2>>.  The      *)
(* strings are drawn already stripped and lower-cased.                     *)
(***************************************************************************)
Choices == {"central", "north", "cenxyz"}

Fleets ==
    { << [name |-> "A", stops |-> <<"central">>],
         [name |-> "B", stops |-> <<"north">>] >>,
      << [name |-> "A", stops |-> <<"central">>],
         [name |-> "B", stops |-> <<"central">>] >>,
      << [name |-> "A", stops |-> <<"central", "north">>],
         [name |-> "B", stops |-> <<"north">>] >>,
      << [name |-> "None", stops |-> <<"central">>],
         [name |-> "B", stops |-> <<"north">>] >> }

SeatValues == (0 - 1) .. MaxSeats

BusFileSets ==
    UNION { { [k \in 1..Len(f) |->
                  [name |-> f[k].name, stops |-> f[k].stops, seats |-> sv[k]]] :
              sv \in [1..Len(f) -> SeatValues] } : f \in Fleets }

StudentFiles ==
    UNION { [1..n -> Choices \X Choices] : n \in 0..NumStudents }

(***************************************************************************)
(* State.                                                                  *)
(***************************************************************************)
VARIABLES
    bus_files,          \* the uploaded bus files (never changed)
    students,           \* table students: id -> row
    buses,              \* table buses: one row per bus file
    bus_data,           \* the dict bus_data, in insertion order
    pc,                 \* position in the run
    stage,              \* which call of allocate_students_fair_fuzzy runs
    threshold,          \* its parameter threshold
    specific_students,  \* its parameter specific_students
    single_option,      \* its list single_option (student ids)
    multi_option,       \* its list multi_option (student ids)
    idx,                \* position in the list being iterated
    unallotted,         \* result of the first call
    still_unallotted,   \* result of the second call
    log,                \* history: one entry per student attempted
    probe,              \* a call of match_buses_by_choice on its own
    scores              \* fuzz.ratio of the strings of the model, tabulated

vars == <<bus_files, students, buses, bus_data, pc, stage, threshold,
          specific_students, single_option, multi_option, idx, unallotted,
          still_unallotted, log, probe, scores>>

(***************************************************************************)
(* Loading (Run Allotment, up to the first pass).                          *)
(***************************************************************************)
LoadStudents(rows) ==
    [i \in 1..Len(rows) |->
        [choice1 |-> rows[i][1], choice2 |-> rows[i][2],
         bus_allotted |-> None, allotted_stop |-> None]]

\* bus_data[bus_name] = {...}: a new key goes last, a known key keeps its place.
RECURSIVE LoadBuses(_)
LoadBuses(files) ==
    IF files = <<>> THEN <<>>
    ELSE LET prev  == LoadBuses(SubSeq(files, 1, Len(files) - 1))
             f     == files[Len(files)]
             entry == [name |-> f.name, stops |-> f.stops,
                       seats |-> f.seats, count |-> 0]
             same  == {k \in 1..Len(prev) : prev[k].name = f.name}
         IN  IF same = {} THEN Append(prev, entry)
             ELSE [k \in 1..Len(prev) |-> IF k \in same THEN entry ELSE prev[k]]

\* INSERT INTO buses: one row per file.
LoadBusTable(files) ==
    [k \in 1..Len(files) |->
        [bus_name |-> files[k].name, seats_available |-> files[k].seats]]

NoArg == [is_none |-> TRUE, ids |-> <<>>]
ProbeIdle == [pc |-> "idle"]

\* fuzz.ratio is a pure function: its values are computed once.
Init ==
    /\ scores = [p \in Strings \X Strings |-> ratio(p[1], p[2])]
    /\ bus_files \in BusFileSets
    /\ \E rows \in StudentFiles : students = LoadStudents(rows)
    /\ buses = LoadBusTable(bus_files)
    /\ bus_data = LoadBuses(bus_files)
    /\ pc = "run"
    /\ stage = "load"
    /\ threshold = DefaultThreshold
    /\ specific_students = NoArg
    /\ single_option = <<>>
    /\ multi_option = <<>>
    /\ idx = 1
    /\ unallotted = <<>>
    /\ still_unallotted = <<>>
    /\ log = <<>>
    /\ probe = ProbeIdle

(***************************************************************************)
(* match_buses_by_choice                                                   *)
(***************************************************************************)
\* Two slips of the comparison below: reversed, and the threshold ignored.
MatchedBelow(score, t) == score <= t
MatchedAny(score, t) == TRUE

\* Line 50: if score >= threshold.
Matched(score, t) == score >= t

RECURSIVE MatchedFrom(_, _, _, _, _)
MatchedFrom(choice, bd, t, k, j) ==
    IF k > Len(bd) THEN <<>>
    ELSE IF j > Len(bd[k].stops) THEN MatchedFrom(choice, bd, t, k + 1, 1)
    ELSE LET stop  == bd[k].stops[j]
             score == scores[<<choice, stop>>]
         IN  (IF Matched(score, t) THEN << <<bd[k].name, stop, score>> >>
              ELSE <<>>)
             \o MatchedFrom(choice, bd, t, k, j + 1)

\* A slip of the sort below: a candidate goes before those of equal score.
RECURSIVE SortTiesReversed(_)
SortTiesReversed(m) ==
    IF m = <<>> THEN <<>>
    ELSE LET done == SortTiesReversed(SubSeq(m, 1, Len(m) - 1))
             x    == m[Len(m)]
             pos  == Cardinality({i \in 1..Len(done) : done[i][3] > x[3]})
         IN  SubSeq(done, 1, pos) \o <<x>> \o SubSeq(done, pos + 1, Len(done))

\* list.sort(key=lambda x: -x[2]): stable, so equal scores keep their order.
RECURSIVE SortByScore(_)
SortByScore(m) ==
    IF m = <<>> THEN <<>>
    ELSE LET done == SortByScore(SubSeq(m, 1, Len(m) - 1))
             x    == m[Len(m)]
             pos  == Cardinality({i \in 1..Len(done) : done[i][3] >= x[3]})
         IN  SubSeq(done, 1, pos) \o <<x>> \o SubSeq(done, pos + 1, Len(done))

match_buses_by_choice(choice, bd, t) ==
    SortByScore(MatchedFrom(choice, bd, t, 1, 1))

(***************************************************************************)
(* try_allocate_student                                                    *)
(***************************************************************************)
\* the position of bus_data[bus_name]
BusIndex(bd, bus_name) == CHOOSE k \in 1..Len(bd) : bd[k].name = bus_name

\* Two slips of the test below: the seats are not looked at, and the last
\* seat is never given.
HasSeatAlways(bd, bus_name) == TRUE
HasSeatSpare(bd, bus_name) == bd[BusIndex(bd, bus_name)].seats > 1

\* Line 57: if bus_data[bus_name]['seats'] > 0.
HasSeat(bd, bus_name) == bd[BusIndex(bd, bus_name)].seats > 0

\* The first candidate of the choice whose bus has a seat is taken: the
\* student's row is updated, the bus loses a seat.  The result holds the
\* return value (ok), the candidate taken and the state after the call.
try_allocate_student(student_id, choice, bd, st, t) ==
    LET cands == match_buses_by_choice(choice, bd, t)
        free  == {k \in 1..Len(cands) : HasSeat(bd, cands[k][1])}
    IN  IF free = {}
        THEN [ok |-> FALSE, bus |-> None, stop |-> None,
              bus_data |-> bd, students |-> st]
        ELSE LET k == CHOOSE x \in free : \A y \in free : x <= y
                 c == cands[k]
                 b == BusIndex(bd, c[1])
             IN  [ok |-> TRUE, bus |-> c[1], stop |-> c[2],
                  bus_data |-> [bd EXCEPT ![b].seats = @ - 1,
                                          ![b].count = @ + 1],
                  students |-> [i \in DOMAIN st |->
                                   IF i = student_id
                                   THEN [st[i] EXCEPT !.bus_allotted = c[1],
                                                      !.allotted_stop = c[2]]
                                   ELSE st[i]]]

(***************************************************************************)
(* allocate_students_fair_fuzzy                                            *)
(***************************************************************************)
\* The ids of a list, as a set.
Range(seq) == {seq[i] : i \in 1..Len(seq)}

\* The ids of the rows 1..n that are in keep, in the order of the table.
RECURSIVE SelectIds(_, _)
SelectIds(n, keep) ==
    IF n = 0 THEN <<>>
    ELSE SelectIds(n - 1, keep) \o (IF n \in keep THEN <<n>> ELSE <<>>)

\* `if specific_students:` a list that is None or empty selects every student.
FetchStudents(st, specific) ==
    IF ~specific.is_none /\ specific.ids # <<>>
    THEN SelectIds(Len(st), Range(specific.ids))
    ELSE SelectIds(Len(st), DOMAIN st)

\* total_possible: the buses among the candidates of the two choices.
TotalPossible(ch1, ch2, bd, t) ==
    LET buses_choice1 == match_buses_by_choice(ch1, bd, t)
        buses_choice2 == match_buses_by_choice(ch2, bd, t)
    IN  {buses_choice1[i][1] : i \in 1..Len(buses_choice1)}
          \cup {buses_choice2[i][1] : i \in 1..Len(buses_choice2)}

\* A slip of the test below: every student with a candidate is single-option.
IsSingleOptionAtLeastOne(total_possible) == Cardinality(total_possible) >= 1

\* Line 84: if len(total_possible) == 1.
IsSingleOption(total_possible) == Cardinality(total_possible) = 1

\* A slip of the appends below: each student is put at the head of its list.
RECURSIVE PartitionPrepend(_, _, _, _, _, _)
PartitionPrepend(rows, st, bd, t, single, multi) ==
    IF rows = <<>> THEN <<single, multi>>
    ELSE IF IsSingleOption(TotalPossible(st[Head(rows)].choice1,
                                         st[Head(rows)].choice2, bd, t))
         THEN PartitionPrepend(Tail(rows), st, bd, t,
                               <<Head(rows)>> \o single, multi)
         ELSE PartitionPrepend(Tail(rows), st, bd, t,
                               single, <<Head(rows)>> \o multi)

\* Lines 76-87: the students of rows appended to single_option or to
\* multi_option, in the order of rows.  <<single_option, multi_option>>.
RECURSIVE Partition(_, _, _, _, _, _)
Partition(rows, st, bd, t, single, multi) ==
    IF rows = <<>> THEN <<single, multi>>
    ELSE IF IsSingleOption(TotalPossible(st[Head(rows)].choice1,
                                         st[Head(rows)].choice2, bd, t))
         THEN Partition(Tail(rows), st, bd, t, Append(single, Head(rows)), multi)
         ELSE Partition(Tail(rows), st, bd, t, single, Append(multi, Head(rows)))

\* A call of allocate_students_fair_fuzzy(c, bus_data, t, specific), lines
\* 68-87: fetch the rows, fill single_option and multi_option.
EnterPass(who, t, specific) ==
    \E lists \in {Partition(FetchStudents(students, specific), students,
                            bus_data, t, <<>>, <<>>)} :
        /\ stage' = who
        /\ threshold' = t
        /\ specific_students' = specific
        /\ single_option' = lists[1]
        /\ multi_option' = lists[2]
        /\ idx' = 1
        /\ pc' = "allocate"

\* One iteration of a loop over single_option or multi_option: choice1,
\* and choice2 when choice1 returned False.  r1 and r are the results of
\* the first call of try_allocate_student and of the last one.
Attempt(sid, group) ==
    \E r1 \in {try_allocate_student(sid, students[sid].choice1, bus_data,
                                    students, threshold)} :
    \E r \in {IF r1.ok THEN r1
              ELSE try_allocate_student(sid, students[sid].choice2,
                                        r1.bus_data, r1.students, threshold)} :
        /\ students' = r.students
        /\ bus_data' = r.bus_data
        /\ log' = Append(log, [sid |-> sid, stage |-> stage, group |-> group,
                               threshold |-> threshold, ok |-> r.ok,
                               by_choice1 |-> r1.ok,
                               bus |-> r.bus, stop |-> r.stop,
                               seats |-> [k \in 1..Len(bus_data) |->
                                             bus_data[k].seats]])

\* Lines 90-92: the loop over single_option; idx counts the students
\* attempted in this call.
AllocateSingle ==
    /\ pc = "allocate"
    /\ idx <= Len(single_option)
    /\ Attempt(single_option[idx], "single")
    /\ idx' = idx + 1
    /\ UNCHANGED <<bus_files, buses, pc, stage, threshold, specific_students,
                   single_option, multi_option, unallotted, still_unallotted,
                   probe, scores>>

\* Lines 95-97: the loop over multi_option, after the one over single_option.
AllocateMulti ==
    /\ pc = "allocate"
    /\ idx > Len(single_option)
    /\ idx <= Len(single_option) + Len(multi_option)
    /\ Attempt(multi_option[idx - Len(single_option)], "multi")
    /\ idx' = idx + 1
    /\ UNCHANGED <<bus_files, buses, pc, stage, threshold, specific_students,
                   single_option, multi_option, unallotted, still_unallotted,
                   probe, scores>>

\* Both loops are over.
LoopsDone == pc = "allocate" /\ idx > Len(single_option) + Len(multi_option)

\* Line 100: SELECT id FROM students WHERE bus_allotted='None'.
Unallotted(st) ==
    SelectIds(Len(st), {i \in DOMAIN st : st[i].bus_allotted = None})

(***************************************************************************)
(* Run Allotment: the two stages.                                          *)
(***************************************************************************)
\* Line 179: the first call, threshold 50, every student.
RunFirstPass ==
    /\ pc = "run"
    /\ EnterPass("first", FirstThreshold, NoArg)
    /\ UNCHANGED <<bus_files, students, buses, bus_data, unallotted,
                   still_unallotted, log, probe, scores>>

\* Lines 99-101 of the first call, then lines 179-185: the second call,
\* threshold 45, over the unallotted students when there are some.
FirstPassReturns ==
    /\ LoopsDone
    /\ stage = "first"
    /\ unallotted' = Unallotted(students)
    /\ IF unallotted' # <<>>
       THEN EnterPass("relaxed", RelaxedThreshold,
                      [is_none |-> FALSE, ids |-> unallotted'])
       ELSE /\ pc' = "update_db"
            /\ UNCHANGED <<stage, threshold, specific_students, single_option,
                           multi_option, idx>>
    /\ UNCHANGED <<bus_files, students, buses, bus_data, still_unallotted,
                   log, probe, scores>>

\* Lines 99-101 of the second call, then lines 185-192.
RelaxedPassReturns ==
    /\ LoopsDone
    /\ stage = "relaxed"
    /\ still_unallotted' = Unallotted(students)
    /\ pc' = "update_db"
    /\ UNCHANGED <<bus_files, students, buses, bus_data, stage, threshold,
                   specific_students, single_option, multi_option, idx,
                   unallotted, log, probe, scores>>

\* Lines 194-197: UPDATE buses SET seats_available=? WHERE bus_name=?.
UpdateDB ==
    /\ pc = "update_db"
    /\ buses' = [k \in 1..Len(buses) |->
                    [buses[k] EXCEPT !.seats_available =
                        bus_data[BusIndex(bus_data, buses[k].bus_name)].seats]]
    /\ pc' = "done"
    /\ UNCHANGED <<bus_files, students, bus_data, stage, threshold,
                   specific_students, single_option, multi_option, idx,
                   unallotted, still_unallotted, log, probe, scores>>

Next ==
    \/ RunFirstPass
    \/ AllocateSingle
    \/ AllocateMulti
    \/ FirstPassReturns
    \/ RelaxedPassReturns
    \/ UpdateDB

Spec == Init /\ [][Next]_vars

(***************************************************************************)
(* Bus Capacity Summary: the query over the tables buses and students.     *)
(***************************************************************************)
\* Lines 291-300: one row per bus; total_seats is the column seats_available
\* as it stands, remaining_seats is that column minus the joined students.
bus_summary(tbl, st) ==
    [k \in 1..Len(tbl) |->
        LET allotted_count ==
                Cardinality({s \in DOMAIN st :
                                st[s].bus_allotted = tbl[k].bus_name})
        IN  [bus_name |-> tbl[k].bus_name,
             total_seats |-> tbl[k].seats_available,
             allotted_count |-> allotted_count,
             remaining_seats |-> tbl[k].seats_available - allotted_count]]

(***************************************************************************)
(* A further call of allocate_students_fair_fuzzy after the run, over a    *)
(* population in which every student has a bus: with specific_students     *)
(* absent, or the (empty) list of unallotted students.                     *)
(***************************************************************************)
PassThresholds == {DefaultThreshold, FirstThreshold, RelaxedThreshold}

TerminalPass ==
    /\ pc = "done"
    /\ stage # "terminal"
    /\ \A i \in DOMAIN students : students[i].bus_allotted # None
    /\ \E t \in PassThresholds :
       \E specific \in {NoArg, [is_none |-> FALSE, ids |-> Unallotted(students)]} :
           EnterPass("terminal", t, specific)
    /\ UNCHANGED <<bus_files, students, buses, bus_data, unallotted,
                   still_unallotted, log, probe, scores>>

\* Lines 99-101 of that call.
TerminalPassReturns ==
    /\ LoopsDone
    /\ stage = "terminal"
    /\ still_unallotted' = Unallotted(students)
    /\ pc' = "done"
    /\ UNCHANGED <<bus_files, students, buses, bus_data, stage, threshold,
                   specific_students, single_option, multi_option, idx,
                   unallotted, log, probe, scores>>

NextTerminal ==
    \/ Next
    \/ TerminalPass
    \/ TerminalPassReturns

SpecTerminal == Init /\ [][NextTerminal]_vars

(***************************************************************************)
(* match_buses_by_choice on its own: a choice, the buses of the uploaded   *)
(* files and two thresholds.                                               *)
(***************************************************************************)
Thresholds == {0, RelaxedThreshold, FirstThreshold, DefaultThreshold, 85, 100}

\* Bus files with a stop listed twice and with several stops that match.
ProbeFleets ==
    { << [name |-> "A", stops |-> <<"central", "centrl", "central">>],
         [name |-> "B", stops |-> <<"north", "central">>] >> }

ProbeBusFiles ==
    UNION { { [k \in 1..Len(f) |->
                  [name |-> f[k].name, stops |-> f[k].stops, seats |-> sv[k]]] :
              sv \in [1..Len(f) -> SeatValues] } : f \in ProbeFleets }

InitMatch ==
    /\ scores = [p \in Strings \X Strings |-> ratio(p[1], p[2])]
    /\ bus_files \in BusFileSets \cup ProbeBusFiles
    /\ students = <<>>
    /\ buses = LoadBusTable(bus_files)
    /\ bus_data = LoadBuses(bus_files)
    /\ pc = "probe"
    /\ stage = "load"
    /\ threshold = DefaultThreshold
    /\ specific_students = NoArg
    /\ single_option = <<>>
    /\ multi_option = <<>>
    /\ idx = 1
    /\ unallotted = <<>>
    /\ still_unallotted = <<>>
    /\ log = <<>>
    /\ \E choice \in Strings : \E t1, t2 \in Thresholds :
          probe = [pc |-> "ready", choice |-> choice, t1 |-> t1, t2 |-> t2,
                   r1 |-> <<>>, r2 |-> <<>>, before |-> bus_data]

Probe ==
    /\ probe.pc = "ready"
    /\ probe' = [probe EXCEPT
                    !.pc = "done",
                    !.r1 = match_buses_by_choice(probe.choice, bus_data, probe.t1),
                    !.r2 = match_buses_by_choice(probe.choice, bus_data, probe.t2)]
    /\ UNCHANGED <<bus_files, students, buses, bus_data, pc, stage, threshold,
                   specific_students, single_option, multi_option, idx,
                   unallotted, still_unallotted, log, scores>>

NextMatch == Probe

SpecMatch == InitMatch /\ [][NextMatch]_vars

(***************************************************************************)
(* Vocabulary of the properties.                                           *)
(***************************************************************************)
\* The buses as loaded from the uploaded files.
Loaded == LoadBuses(bus_files)

BusIds == 1..Len(bus_data)
StudentIds == DOMAIN students

\* The students whose bus_allotted is the bus.
AllottedTo(bus_name) == {s \in StudentIds : students[s].bus_allotted = bus_name}

\* The buses that match a choice of the student at threshold t.
Possible(s, t) ==
    TotalPossible(students[s].choice1, students[s].choice2, bus_data, t)

\* The attempts that seated the student.
Seatings(s) == {i \in DOMAIN log : log[i].sid = s /\ log[i].ok}
EverSeated(s) == Seatings(s) # {}
LastSeating(s) == log[CHOOSE i \in Seatings(s) : \A j \in Seatings(s) : j <= i]
SeatedIn(s, who) == \E i \in Seatings(s) : log[i].stage = who

\* The students attempted in a call.
AttemptedIn(who) == {log[i].sid : i \in {j \in DOMAIN log : log[j].stage = who}}

\* At the moment of the seating log[i], another bus that matches a choice of
\* the student had a free seat.
HadAlternative(i) ==
    \E k \in BusIds :
        /\ bus_data[k].name # log[i].bus
        /\ log[i].seats[k] > 0
        /\ bus_data[k].name \in Possible(log[i].sid, log[i].threshold)

(***************************************************************************)
(* C1.  In every state of a run, for every bus: its remaining seats equal  *)
(* its capacity as loaded minus the number of students whose bus_allotted  *)
(* is that bus, and its remaining seats are >= 0.                          *)
(* Fails on the code: a negative 'Seats Available' is loaded as it is, and *)
(* a bus file named "None" lets the relaxed pass seat a student twice.     *)
(***************************************************************************)
CapacityInvariant ==
    \A k \in BusIds :
        /\ bus_data[k].seats =
              Loaded[k].seats - Cardinality(AllottedTo(bus_data[k].name))
        /\ bus_data[k].seats >= 0

(***************************************************************************)
(* C2.  Assignment is write-once: once a student's row holds an            *)
(* assignment, no later step of the run changes it.                        *)
(* Fails on the code: a student seated on the bus named "None" is selected *)
(* by WHERE bus_allotted='None' and seated again by the relaxed pass.      *)
(***************************************************************************)
HasAssignment(s) ==
    students[s].bus_allotted # None \/ students[s].allotted_stop # None

WriteOnce ==
    [][\A s \in StudentIds : HasAssignment(s) => students'[s] = students[s]]_vars

(***************************************************************************)
(* C3.  Fairness scenario, for the first pass: two buses X (capacity 1)    *)
(* and Y (capacity >= 1) and two students, C whose choices match only X    *)
(* and F whose choices match X and Y.  In either input order the pass ends *)
(* with C seated on X and F seated on Y.                                   *)
(***************************************************************************)
FairnessCase(x, y, c, f) ==
    /\ LoopsDone
    /\ stage = "first"
    /\ Len(bus_data) = 2
    /\ Len(students) = 2
    /\ x # y
    /\ c # f
    /\ Loaded[x].seats = 1
    /\ Loaded[y].seats >= 1
    /\ Possible(c, FirstThreshold) = {bus_data[x].name}
    /\ Possible(f, FirstThreshold) = {bus_data[x].name, bus_data[y].name}

FairnessScenario ==
    \A x, y \in BusIds : \A c, f \in StudentIds :
        FairnessCase(x, y, c, f) =>
            /\ EverSeated(c)
            /\ LastSeating(c).bus = bus_data[x].name
            /\ students[c].bus_allotted = bus_data[x].name
            /\ EverSeated(f)
            /\ LastSeating(f).bus = bus_data[y].name
            /\ students[f].bus_allotted = bus_data[y].name

\* F comes first in the input and the best candidate of F's first choice is
\* on X.
FairnessScenarioReached ==
    \E x, y \in BusIds :
        /\ FairnessCase(x, y, 2, 1)
        /\ match_buses_by_choice(students[1].choice1, bus_data,
                                 FirstThreshold)[1][1] = bus_data[x].name

(***************************************************************************)
(* C4.  No starvation.  As claimed, over the whole run: at the end there   *)
(* is no pair (C, F) with C unassigned, X the only bus matching C's        *)
(* choices at the final threshold, and F holding a seat on X taken at a    *)
(* moment when another bus matching F's choices had a free seat.           *)
(* Fails on the code: F can take X in the first pass while C matches X     *)
(* only at the relaxed threshold.                                          *)
(***************************************************************************)
NoStarvationRun ==
    pc = "done" =>
        ~ \E c, f \in StudentIds : \E x \in BusIds : \E i \in Seatings(f) :
            /\ ~EverSeated(c)
            /\ Possible(c, threshold) = {bus_data[x].name}
            /\ log[i].bus = bus_data[x].name
            /\ students[f].bus_allotted = bus_data[x].name
            /\ HadAlternative(i)

(***************************************************************************)
(* C4, amended.  Within one pass: at the end of the run there is no pair   *)
(* (C, F) with C unassigned, X the only bus matching C's choices at the    *)
(* threshold of a pass that attempted C, and F seated on X in that same    *)
(* pass at a moment when another bus matching F's choices (at that         *)
(* threshold) had a free seat.                                             *)
(***************************************************************************)
\* C was attempted in the pass of the seating log[i], and at its threshold
\* the only bus matching C's choices is that of the seating.
ConstrainedRival(c, i) ==
    /\ ~EverSeated(c)
    /\ c \in AttemptedIn(log[i].stage)
    /\ Possible(c, log[i].threshold) = {log[i].bus}

NoStarvationInPass ==
    pc = "done" =>
        ~ \E c, f \in StudentIds : \E i \in Seatings(f) :
            /\ ConstrainedRival(c, i)
            /\ HadAlternative(i)

\* An unassigned C whose only bus went, in the same pass, to a student
\* without an alternative.
NoStarvationInPassReached ==
    /\ pc = "done"
    /\ \E c, f \in StudentIds : \E i \in Seatings(f) :
          /\ c # f
          /\ ConstrainedRival(c, i)
          /\ log[i].group = "single"

(***************************************************************************)
(* C5.  Idempotence of the terminal pass: a call of                        *)
(* allocate_students_fair_fuzzy (specific_students absent or empty) over a *)
(* population in which every student has a bus changes no bus's seats and  *)
(* no student's row.                                                       *)
(* Fails on the code: the call fetches every student and seats each again  *)
(* wherever a matching bus has a seat.                                     *)
(***************************************************************************)
TerminalPassIdempotent ==
    [][stage = "terminal" => (students' = students /\ bus_data' = bus_data)]_vars

(***************************************************************************)
(* C6.  The relaxed pass classifies and attempts exactly the students that *)
(* were not seated by the first pass, and is not run when the first pass   *)
(* seated every student.                                                   *)
(* Fails on the code: a student seated on the bus named "None" counts as   *)
(* unallotted (see C2).                                                    *)
(***************************************************************************)
NotSeatedByFirst == {s \in StudentIds : ~SeatedIn(s, "first")}

RelaxedPassExact ==
    /\ stage = "relaxed" =>
          Range(single_option) \cup Range(multi_option) = NotSeatedByFirst
    /\ (stage = "relaxed" /\ pc \in {"update_db", "done"}) =>
          AttemptedIn("relaxed") = NotSeatedByFirst
    /\ (pc \in {"update_db", "done"} /\ NotSeatedByFirst = {}) =>
          (stage = "first" /\ AttemptedIn("relaxed") = {})

(***************************************************************************)
(* C7.  Monotone relaxation: for thresholds t1 > t2, every candidate       *)
(* (bus, stop, score) that match_buses_by_choice returns at t1 is also     *)
(* returned at t2.                                                         *)
(***************************************************************************)
MonotoneRelaxation ==
    (probe.pc = "done" /\ probe.t1 > probe.t2) =>
        /\ Range(probe.r1) \subseteq Range(probe.r2)
        /\ Len(probe.r1) <= Len(probe.r2)

\* The lower threshold adds a candidate to a non-empty list.
MonotoneRelaxationReached ==
    /\ probe.pc = "done"
    /\ probe.t1 > probe.t2
    /\ probe.r1 # <<>>
    /\ Len(probe.r1) < Len(probe.r2)

(***************************************************************************)
(* C8.  Each student's assignment is either absent or a (bus, stop) pair   *)
(* with the bus in bus_data, the stop among that bus's stops, and the stop *)
(* scoring >= the threshold of the pass that made the assignment against   *)
(* the student's choice1 or choice2.                                       *)
(***************************************************************************)
AssignmentValid ==
    \A s \in StudentIds :
        \/ /\ students[s].bus_allotted = None
           /\ students[s].allotted_stop = None
           /\ ~EverSeated(s)
        \/ /\ EverSeated(s)
           /\ \E k \in BusIds :
                 /\ bus_data[k].name = students[s].bus_allotted
                 /\ students[s].allotted_stop \in Range(bus_data[k].stops)
           /\ \/ scores[<<students[s].choice1, students[s].allotted_stop>>]
                    >= LastSeating(s).threshold
              \/ scores[<<students[s].choice2, students[s].allotted_stop>>]
                    >= LastSeating(s).threshold

\* A student seated by the relaxed pass at a stop that scores below 50, next
\* to a student left without assignment.
AssignmentValidReached ==
    /\ pc = "done"
    /\ \E s, u \in StudentIds :
          /\ ~EverSeated(u)
          /\ EverSeated(s)
          /\ LastSeating(s).threshold = RelaxedThreshold
          /\ scores[<<students[s].choice1, students[s].allotted_stop>>]
                < FirstThreshold
          /\ scores[<<students[s].choice2, students[s].allotted_stop>>]
                < FirstThreshold

(***************************************************************************)
(* C9.  A bus with a negative capacity is rejected before the run: no pass *)
(* executes with a bus whose seats are below 0, and the remaining seats    *)
(* stay within [0, capacity as loaded].                                    *)
(* Fails on the code: the value of 'Seats Available' is not checked.       *)
(***************************************************************************)
NegativeCapacityRejected ==
    pc = "allocate" =>
        \A k \in BusIds :
            /\ bus_data[k].seats >= 0
            /\ bus_data[k].seats <= Loaded[k].seats

(***************************************************************************)
(* C10.  Scenario: buses A and B, each with the single stop "central" and  *)
(* one seat; students R1 and R2, each with choice1 = choice2 = "central".  *)
(* The run ends with one of them on A, the other on B, no student          *)
(* unassigned and no seat left on either bus.                              *)
(***************************************************************************)
CentralCase ==
    /\ pc = "done"
    /\ bus_files = << [name |-> "A", stops |-> <<"central">>, seats |-> 1],
                      [name |-> "B", stops |-> <<"central">>, seats |-> 1] >>
    /\ Len(students) = 2
    /\ \A s \in StudentIds :
          students[s].choice1 = "central" /\ students[s].choice2 = "central"

CentralScenario ==
    CentralCase =>
        /\ {students[1].bus_allotted, students[2].bus_allotted} = {"A", "B"}
        /\ \A s \in StudentIds :
              /\ Cardinality(Seatings(s)) = 1
              /\ students[s].allotted_stop = "central"
        /\ unallotted = <<>>
        /\ \A k \in BusIds : bus_data[k].seats = 0
        /\ \A k \in DOMAIN buses : buses[k].seats_available = 0

CentralScenarioReached == CentralCase /\ stage = "first"

(***************************************************************************)
(* C11.  The value returned by each pass is exactly the set of ids of the  *)
(* students that have no bus at the end of that pass: every returned id is *)
(* a student holding no seat, every student not returned holds a seat.     *)
(* Fails on the code: a student seated on the bus named "None" is returned *)
(* as unallotted (the sentinel of C2).                                     *)
(***************************************************************************)
FirstPassReturned == stage = "relaxed" \/ pc \in {"update_db", "done"}
RelaxedPassReturned == stage = "relaxed" /\ pc \in {"update_db", "done"}

ReturnsUnassigned ==
    /\ FirstPassReturned =>
          Range(unallotted) = {s \in StudentIds : ~SeatedIn(s, "first")}
    /\ RelaxedPassReturned =>
          Range(still_unallotted) = {s \in StudentIds : ~EverSeated(s)}

(***************************************************************************)
(* C13.  Scoring scenario: at threshold 85, match_buses_by_choice with     *)
(* choice "centrl" scores above 85 against a stop "central" and returns    *)
(* that stop of that bus as a candidate; with choice "xyz" the stop        *)
(* "central" scores below 85 and no candidate with that stop is returned.  *)
(***************************************************************************)
\* The (bus, position) pairs of the stops, and of the stops named stop.
StopPositions ==
    UNION {{<<k, j>> : j \in DOMAIN bus_data[k].stops} : k \in BusIds}

StopsNamed(stop) ==
    {p \in StopPositions : bus_data[p[1]].stops[p[2]] = stop}

ScoringScenario ==
    (probe.pc = "done" /\ probe.t1 = 85) =>
        /\ probe.choice = "centrl" =>
              /\ scores[<<"centrl", "central">>] > 85
              /\ \A p \in StopsNamed("central") :
                    <<bus_data[p[1]].name, "central",
                      scores[<<"centrl", "central">>]>> \in Range(probe.r1)
        /\ probe.choice = "xyz" =>
              /\ scores[<<"xyz", "central">>] < 85
              /\ \A i \in 1..Len(probe.r1) : probe.r1[i][2] # "central"

\* "centrl" was matched at 85 against buses that stop at "central".
ScoringScenarioReached ==
    /\ probe.pc = "done"
    /\ probe.t1 = 85
    /\ probe.choice = "centrl"
    /\ StopsNamed("central") # {}
    /\ Len(probe.r1) = Cardinality(StopsNamed("central"))

(***************************************************************************)
(* C14.  Within one pass every attempt for a single-option student comes   *)
(* before any attempt for a multi-option student; within each group the    *)
(* students are attempted in input order; every student of the pass is in  *)
(* one list once and is attempted once; and an attempt takes at most one   *)
(* seat (the second choice is tried only when the first failed).           *)
(***************************************************************************)
\* The seats right after the attempt log[i].
SeatsAfter(i) ==
    IF i < Len(log) THEN log[i + 1].seats
    ELSE [k \in BusIds |-> bus_data[k].seats]

\* The buses whose seats the attempt log[i] changed.
SeatsTaken(i) == {k \in BusIds : SeatsAfter(i)[k] # log[i].seats[k]}

NoRepeats(seq) == \A i, j \in DOMAIN seq : i # j => seq[i] # seq[j]

OrderOfAttempts ==
    /\ \A i, j \in DOMAIN log :
          (i < j /\ log[i].stage = log[j].stage) =>
              /\ ~(log[i].group = "multi" /\ log[j].group = "single")
              /\ log[i].group = log[j].group => log[i].sid < log[j].sid
              /\ log[i].sid # log[j].sid
    /\ \A i \in DOMAIN log :
          /\ Cardinality(SeatsTaken(i)) = (IF log[i].ok THEN 1 ELSE 0)
          /\ \A k \in SeatsTaken(i) : SeatsAfter(i)[k] = log[i].seats[k] - 1
    /\ pc = "allocate" =>
          /\ NoRepeats(single_option \o multi_option)
          /\ Range(single_option \o multi_option) =
                Range(FetchStudents(students, specific_students))
          /\ AttemptedIn(stage) =
                Range(SubSeq(single_option \o multi_option, 1, idx - 1))

\* A multi-option student that comes first in the input was attempted after
\* a single-option student, and the first choice of one of them failed.
OrderOfAttemptsReached ==
    \E i, j \in DOMAIN log :
        /\ i < j
        /\ log[i].stage = log[j].stage
        /\ log[i].group = "single"
        /\ log[j].group = "multi"
        /\ log[j].sid < log[i].sid
        /\ log[j].ok
        /\ ~log[j].by_choice1

(***************************************************************************)
(* C15.  Seat selection rule: an attempted student is seated on the first  *)
(* candidate, in the order (choice1 candidates by descending score, then   *)
(* choice2 candidates by descending score), whose bus has remaining seats  *)
(* > 0 at that moment; is seated through choice2 only if every bus         *)
(* matching choice1 had 0 remaining seats; and is left unseated, with all  *)
(* seat counts unchanged, only if every candidate of both choices was on a *)
(* bus with 0 remaining seats.                                             *)
(* Fails on the code: a bus loaded with a negative 'Seats Available' (C9)  *)
(* is passed over with fewer than 0 seats.                                 *)
(***************************************************************************)
\* The candidates of the two choices of the attempt log[i], in order.
CandidatesOf(i, which) ==
    match_buses_by_choice(IF which = 1 THEN students[log[i].sid].choice1
                          ELSE students[log[i].sid].choice2,
                          bus_data, log[i].threshold)

\* The seats of the candidate's bus at the moment of the attempt log[i].
SeatsAt(i, cand) == log[i].seats[BusIndex(bus_data, cand[1])]

SeatSelectionAt(i) ==
    LET c1   == CandidatesOf(i, 1)
        all  == c1 \o CandidatesOf(i, 2)
        free == {k \in DOMAIN all : SeatsAt(i, all[k]) > 0}
    IN  /\ log[i].ok <=> free # {}
        /\ log[i].ok =>
              \E k \in free :
                  /\ \A x \in free : k <= x
                  /\ log[i].bus = all[k][1]
                  /\ log[i].stop = all[k][2]
                  /\ SeatsTaken(i) = {BusIndex(bus_data, all[k][1])}
        /\ (log[i].ok /\ ~log[i].by_choice1) =>
              \A k \in DOMAIN c1 : SeatsAt(i, c1[k]) = 0
        /\ ~log[i].ok =>
              /\ SeatsTaken(i) = {}
              /\ \A k \in DOMAIN all : SeatsAt(i, all[k]) = 0

SeatSelection == \A i \in DOMAIN log : SeatSelectionAt(i)

(***************************************************************************)
(* C16.  Classification rule: a student of the pass is in single_option if *)
(* and only if the buses that have a stop scoring >= the pass threshold    *)
(* against choice1 or choice2, whatever their remaining seats, are exactly *)
(* one; a student with none or with two or more is in multi_option.        *)
(***************************************************************************)
\* The buses with a stop that scores >= t against a choice of the student.
FeasibleBuses(s, t) ==
    {bus_data[p[1]].name :
        p \in {q \in StopPositions :
                 \/ scores[<<students[s].choice1,
                             bus_data[q[1]].stops[q[2]]>>] >= t
                 \/ scores[<<students[s].choice2,
                             bus_data[q[1]].stops[q[2]]>>] >= t}}

ClassificationRule ==
    pc = "allocate" =>
        \A s \in Range(FetchStudents(students, specific_students)) :
            /\ s \in Range(single_option) <=>
                  Cardinality(FeasibleBuses(s, threshold)) = 1
            /\ s \in Range(multi_option) <=>
                  Cardinality(FeasibleBuses(s, threshold)) # 1

\* Right after classification: a single-option student whose only bus has no
\* seat left, and a multi-option student that matches no bus.
ClassificationRuleReached ==
    /\ pc = "allocate"
    /\ idx = 1
    /\ \E s \in Range(single_option) : \E k \in BusIds :
          /\ FeasibleBuses(s, threshold) = {bus_data[k].name}
          /\ bus_data[k].seats = 0
    /\ \E u \in Range(multi_option) : FeasibleBuses(u, threshold) = {}

(***************************************************************************)
(* C17.  match_buses_by_choice returns one candidate for every (bus, stop  *)
(* position) whose score is >= threshold, several per bus when several     *)
(* stops match and a stop listed twice counted twice, sorted by score      *)
(* descending, candidates of equal score in the order in which buses and   *)
(* then stops are enumerated; it changes no seat count and no assignment.  *)
(***************************************************************************)
ScoreAt(p) == scores[<<probe.choice, bus_data[p[1]].stops[p[2]]>>]

\* The stop positions that score >= t, and the order of enumeration.
MatchedPositions(t) == {p \in StopPositions : ScoreAt(p) >= t}
EnumeratedBefore(p, q) == p[1] < q[1] \/ (p[1] = q[1] /\ p[2] < q[2])

\* The place of position p in the result: after the positions of higher
\* score and after those of equal score that are enumerated earlier.
PlaceOf(p, t) ==
    1 + Cardinality({q \in MatchedPositions(t) :
                        \/ ScoreAt(q) > ScoreAt(p)
                        \/ (ScoreAt(q) = ScoreAt(p) /\ EnumeratedBefore(q, p))})

MatchResult ==
    probe.pc = "done" =>
        /\ Len(probe.r1) = Cardinality(MatchedPositions(probe.t1))
        /\ \A p \in MatchedPositions(probe.t1) :
              probe.r1[PlaceOf(p, probe.t1)] =
                  <<bus_data[p[1]].name, bus_data[p[1]].stops[p[2]], ScoreAt(p)>>
        /\ bus_data = probe.before
        /\ students = <<>>

\* The result holds a stop of one bus twice, a tie between two buses, and a
\* candidate enumerated before one of higher score.
MatchResultReached ==
    /\ probe.pc = "done"
    /\ \E i, j \in DOMAIN probe.r1 : i < j /\ probe.r1[i] = probe.r1[j]
    /\ \E i, j \in DOMAIN probe.r1 :
          /\ probe.r1[i][1] # probe.r1[j][1]
          /\ probe.r1[i][3] = probe.r1[j][3]
    /\ \E p, q \in MatchedPositions(probe.t1) :
          EnumeratedBefore(p, q) /\ ScoreAt(p) < ScoreAt(q)

(***************************************************************************)
(* C18.  After a run, the Bus Capacity Summary row of every bus reports    *)
(* total_seats equal to the bus's capacity as loaded and remaining_seats   *)
(* equal to that capacity minus the number of students allotted to the     *)
(* bus, which is the bus's remaining seats at the end of the run.          *)
(* Fails on the code: the run overwrites seats_available with the          *)
(* remaining seats, and the query subtracts the students once more.        *)
(***************************************************************************)
CapacitySummary ==
    pc = "done" =>
        \A k \in DOMAIN buses :
            LET row == bus_summary(buses, students)[k]
            IN  /\ row.bus_name = bus_files[k].name
                /\ row.total_seats = bus_files[k].seats
                /\ row.remaining_seats =
                      bus_files[k].seats - Cardinality(AllottedTo(row.bus_name))
                /\ row.remaining_seats =
                      bus_data[BusIndex(bus_data, row.bus_name)].seats

(***************************************************************************)
(* C19.  Greedy maximality: at the end of a run no student is without a    *)
(* seat while some bus with remaining seats > 0 has a stop scoring >= the  *)
(* threshold of the last pass that processed the student against the       *)
(* student's choice1 or choice2.                                           *)
(***************************************************************************)
Attempts(s) == {i \in DOMAIN log : log[i].sid = s}
LastAttempt(s) == log[CHOOSE i \in Attempts(s) : \A j \in Attempts(s) : j <= i]

\* The buses with remaining seats > 0.
BusesWithSeats == {bus_data[k].name : k \in {x \in BusIds : bus_data[x].seats > 0}}

GreedyMaximality ==
    pc = "done" =>
        \A s \in StudentIds :
            ~EverSeated(s) =>
                /\ Attempts(s) # {}
                /\ FeasibleBuses(s, LastAttempt(s).threshold)
                      \cap BusesWithSeats = {}

\* A student ends without a seat, last processed by the relaxed pass, with a
\* matching bus that was loaded with seats and is full, while another bus
\* still has a seat.
GreedyMaximalityReached ==
    /\ pc = "done"
    /\ BusesWithSeats # {}
    /\ \E s \in StudentIds : \E k \in BusIds :
          /\ ~EverSeated(s)
          /\ LastAttempt(s).stage = "relaxed"
          /\ bus_data[k].name \in FeasibleBuses(s, RelaxedThreshold)
          /\ Loaded[k].seats > 0
          /\ bus_data[k].seats = 0

====
